---- MODULE Spec2Model ----
(***************************************************************************)
(* Model of the birthdayyy hooks.  The audio-session hook useBirthdayAudio *)
(* drives one HTMLAudioElement.  The source holds two variants of it: the  *)
(* first (src/unnamed/part_001, lines 1-199) and the defensive one (lines  *)
(* 200-510); opts.variant says which one is mounted.                       *)
(*                                                                         *)
(* React state is kept twice: nx is the state with every setState call     *)
(* applied, st is what the last committed render saw of the fields that    *)
(* the closures of the control functions and of the effect read.  Render   *)
(* commits nx and re-runs the effect when one of its dependencies changed. *)
(*                                                                         *)
(* The element el is the browser's media element.  events is its task      *)
(* queue: media events in the order they were queued, and the reactions    *)
(* of play() promises: "rejAuto" and "rejManual" for a rejected automatic  *)
(* or manual request, "thenManual" for a fulfilled manual one.             *)
(***************************************************************************)
EXTENDS Integers, Sequences, FiniteSets, TLC

\* ------------------------------------------------------------------ bounds

\* The volume 1.0 is VolSteps; volumes are counted in steps of 1/VolSteps.
VolSteps == 2
\* The longest song lasts MaxDur time units.
MaxDur == 2
\* At most MaxQueue tasks wait in the element's task queue.
MaxQueue == 3
\* The clock runs for Horizon seconds.
Horizon == 95
\* An interval tick runs at most MaxLate clock units after it is due.
MaxLate == 1
\* At most MaxTimeouts timeouts of the guestbook are pending.
MaxTimeouts == 2

\* ------------------------------------------------------------------ values

Songs == {"A", "B"}
defaultSongUrl == "A"
NoSrc == "none"
NoError == "null"
AudioError == "Unknown audio error"

\* Duration of the media resource behind a url: "A" is the long song.
SongDuration(url) == IF url = "A" THEN MaxDur ELSE 1

\* Inputs: volumes below 0 and above 1, seek targets before 0 and past the end.
VolumeInputs == (0 - 1) .. (VolSteps + 1)
SeekInputs == (0 - 1) .. (MaxDur + 1)

Min(a, b) == IF a < b THEN a ELSE b
Max(a, b) == IF a > b THEN a ELSE b

\* Math.max(0, Math.min(1, v)) on the volume scale.
ClampVolume(v) == Max(0, Min(VolSteps, v))

\* Math.max(0, Math.min(t, d))
ClampTime(t, d) == Max(0, Min(t, d))

VARIABLES
    opts,           \* variant and options: autoPlay, loop, initialVolume, initialMuted
    phase,          \* "init" (rendered, effect not yet run), "live", "gone" (unmounted)
    isMountedRef,   \* isMountedRef.current
    listeners,      \* number of handler sets of the hook registered on the element
    st,             \* the committed render's state, the part closures read
    nx,             \* React state with the queued updates applied
    el,             \* the audio element
    events,         \* the element's queued tasks, oldest first
    allowed,        \* the document may start playback (sticky user activation)
    last,           \* the step just taken: op, number, url or event, callbacks fired
    call,           \* the latest control-function call and the state it found
    modal,          \* the song-list modal's state: currentSong and isPlaying
    cd,             \* the countdown hook, its owner, its timer and the clock
    gb,             \* the guestbook view and its timeouts
    page            \* the page's stage and food selection

vars ==
    <<opts, phase, isMountedRef, listeners, st, nx, el, events, allowed, last, call,
      modal, cd, gb, page>>

Defensive == opts.variant = "defensive"

\* ------------------------------------------------------------ the element

Range(q) == {q[i] : i \in 1 .. Len(q)}

\* Handlers of these events only copy what the element holds when they run, so
\* one queued instance stands for every instance queued behind it.
Coalesced == {"timeupdate", "volumechange", "durationchange"}

Enq(q, e) == IF e \in Coalesced /\ e \in Range(q) THEN q ELSE Append(q, e)

RECURSIVE EnqAll(_, _)
EnqAll(q, es) == IF es = <<>> THEN q ELSE EnqAll(Enq(q, Head(es)), Tail(es))

IsRej(e) == e \in {"rejAuto", "rejManual", "rejModal"}

\* The fulfilment of a play() request of the song-list modal for a url.
ThenModal(url) == "thenModal" \o url

\* The tasks that settle play() promises and run their reactions.
IsReaction(e) == IsRej(e) \/ e = "thenManual" \/ e \in {ThenModal(u) : u \in Songs}

RejOf(who) ==
    IF who = "auto" THEN "rejAuto" ELSE IF who = "manual" THEN "rejManual" ELSE "rejModal"

\* The rejections of a set of pending play() promises, in a fixed order.
Rejections(pend) ==
    (IF "auto" \in pend THEN <<"rejAuto">> ELSE <<>>)
        \o (IF "manual" \in pend THEN <<"rejManual">> ELSE <<>>)
        \o (IF "modal" \in pend THEN <<"rejModal">> ELSE <<>>)

\* play() rejected at once: the reaction is a microtask, which runs before
\* every queued task, behind the microtasks that wait already.
InsertMicro(q, e) ==
    LET k == CHOOSE n \in 0 .. Len(q) :
                 /\ \A i \in 1 .. n : IsReaction(q[i])
                 /\ (n = Len(q) \/ ~IsReaction(q[n + 1]))
    IN SubSeq(q, 1, k) \o <<e>> \o SubSeq(q, k + 1, Len(q))

\* No reaction of a settled promise is next: a reaction runs in the task that
\* settles its promise, before anything else starts.
NoMicrotask(q) == IF q = <<>> THEN TRUE ELSE ~IsReaction(Head(q))

\* audio.pause(): nothing when paused; else paused, timeupdate and pause are
\* queued and the pending play() promises are rejected in the same task.
ElPause(m) ==
    IF m.el.paused THEN m
    ELSE [el |-> [m.el EXCEPT !.paused = TRUE, !.pend = {}],
          q  |-> EnqAll(m.q, <<"timeupdate", "pause">> \o Rejections(m.el.pend))]

\* audio.src = url: the media element load algorithm.  Queued event tasks are
\* removed, promises about to be settled are settled at once, the element is
\* paused without a pause event, the position is reset and loading starts.
ElLoad(m, url) ==
    LET settled == SelectSeq(m.q, IsReaction) \o Rejections(m.el.pend)
    IN [el |-> [m.el EXCEPT !.src = url, !.meta = FALSE, !.paused = TRUE,
                            !.pend = {}, !.time = 0, !.failed = FALSE],
        q  |-> settled
                 \o (IF m.el.time # 0 THEN <<"timeupdate">> ELSE <<>>)
                 \o <<"loadstart">>]

\* audio.play(): rejected with NotAllowedError when the document may not start
\* playback; else the element leaves the paused state (play is queued) and the
\* promise waits for playback to start.
ElPlay(m, who, ok) ==
    IF ~ok THEN [el |-> m.el, q |-> InsertMicro(m.q, RejOf(who))]
    ELSE LET atEnd == m.el.meta /\ ~m.el.loop /\ m.el.time = SongDuration(m.el.src)
             q1 == IF m.el.paused THEN Enq(m.q, "play") ELSE m.q
         IN [el |-> [m.el EXCEPT !.paused = FALSE, !.pend = @ \cup {who},
                                 !.time = IF atEnd THEN 0 ELSE @],
             q  |-> IF atEnd THEN Enq(q1, "timeupdate") ELSE q1]

\* audio.volume = v: volumechange is queued only when the value changes.
ElSetVolume(m, v) ==
    IF m.el.volume = v THEN m
    ELSE [el |-> [m.el EXCEPT !.volume = v], q |-> Enq(m.q, "volumechange")]

\* audio.muted = b: volumechange is queued only when the value changes.
ElSetMuted(m, b) ==
    IF m.el.muted = b THEN m
    ELSE [el |-> [m.el EXCEPT !.muted = b], q |-> Enq(m.q, "volumechange")]

\* audio.currentTime = t: with metadata a seek inside the resource; without,
\* t becomes the default playback start position and no event is queued.
ElSeek(m, t) ==
    IF m.el.meta
    THEN [el |-> [m.el EXCEPT !.time = ClampTime(t, SongDuration(m.el.src))],
          q  |-> Enq(m.q, "timeupdate")]
    ELSE [el |-> [m.el EXCEPT !.time = t], q |-> m.q]

\* -------------------------------------------------------- the environment

\* A user gesture: from now on play() is granted.
Activate ==
    /\ NoMicrotask(events)
    /\ ~allowed
    /\ allowed' = TRUE
    /\ last' = [op |-> "activate", arg |-> 0, what |-> NoSrc, fired |-> {}]
    /\ UNCHANGED <<page, modal, cd, gb, opts, phase, isMountedRef, listeners, st, nx, el, events, call>>

\* The resource's metadata arrives: the duration is known, a default start
\* position past the end is pulled back, and the element can play.
MetadataLoaded ==
    LET d == SongDuration(el.src)
        q1 == Enq(events, "durationchange")
        q2 == IF el.time # 0 THEN Enq(q1, "timeupdate") ELSE q1
        q3 == Enq(q2, "canplay")
    IN /\ NoMicrotask(events)
       /\ el.src # NoSrc /\ ~el.meta /\ ~el.failed
       /\ Len(q3) <= MaxQueue
       /\ el' = [el EXCEPT !.meta = TRUE, !.time = Min(el.time, d)]
       /\ events' = q3
       /\ last' = [op |-> "metadata", arg |-> 0, what |-> NoSrc, fired |-> {}]
       /\ UNCHANGED <<page, modal, cd, gb, opts, phase, isMountedRef, listeners, st, nx, allowed, call>>

\* The resource cannot be fetched or decoded: error is queued and the pending
\* play() promises are rejected.
MediaError ==
    LET q1 == EnqAll(events, <<"error">> \o Rejections(el.pend))
    IN /\ NoMicrotask(events)
       /\ el.src # NoSrc /\ ~el.meta /\ ~el.failed
       /\ Len(q1) <= MaxQueue
       /\ el' = [el EXCEPT !.failed = TRUE, !.pend = {}]
       /\ events' = q1
       /\ last' = [op |-> "mediaError", arg |-> 0, what |-> NoSrc, fired |-> {}]
       /\ UNCHANGED <<page, modal, cd, gb, opts, phase, isMountedRef, listeners, st, nx, allowed, call>>

\* Playback starts: the pending play() promises are taken and a task that
\* fulfils them is queued behind the events that wait.  "thenManual" is that
\* task when a manual request is among them; only the first variant's play()
\* has a then callback.  The modal's request has one that names its song.
Started ==
    LET q0 == IF "manual" \in el.pend THEN Append(events, "thenManual") ELSE events
        q1 == IF "modal" \in el.pend THEN Append(q0, ThenModal(el.src)) ELSE q0
    IN /\ NoMicrotask(events)
       /\ el.meta /\ ~el.paused /\ el.pend # {}
       /\ Len(q1) <= MaxQueue
       /\ el' = [el EXCEPT !.pend = {}]
       /\ events' = q1
       /\ last' = [op |-> "started", arg |-> 0, what |-> NoSrc, fired |-> {}]
       /\ UNCHANGED <<page, modal, cd, gb, opts, phase, isMountedRef, listeners, st, nx, allowed, call>>

\* Playback advances by one time unit; at the end of the resource it wraps
\* around when looping and else ends: the element pauses and ended is queued.
Progress ==
    LET d == SongDuration(el.src)
        q1 == IF el.time < d \/ el.loop
              THEN Enq(events, "timeupdate")
              ELSE EnqAll(events, <<"timeupdate", "pause", "ended">>)
    IN /\ NoMicrotask(events)
       /\ el.meta /\ ~el.paused /\ el.pend = {}
       /\ Len(q1) <= MaxQueue
       /\ el' = IF el.time < d THEN [el EXCEPT !.time = @ + 1]
                ELSE IF el.loop THEN [el EXCEPT !.time = 0]
                ELSE [el EXCEPT !.paused = TRUE]
       /\ events' = q1
       /\ last' = [op |-> "progress", arg |-> 0, what |-> NoSrc, fired |-> {}]
       /\ UNCHANGED <<page, modal, cd, gb, opts, phase, isMountedRef, listeners, st, nx, allowed, call>>

\* ------------------------------------------- the hook, defensive variant

\* safeSetState(setter, value)
safeSetState(s, f, v) == IF isMountedRef THEN [s EXCEPT ![f] = v] ELSE s

\* An error handler that leaves the loading flag: what C13 must tell from
\* handleError.
handleErrorStillLoading(s) == safeSetState(s, "errorState", AudioError)

\* handleError: records the message and stops loading; onError is called.
handleError(s) ==
    safeSetState(safeSetState(s, "errorState", AudioError), "isLoading", FALSE)

\* A play handler that marks nothing: what C8 must tell from handlePlay.
handlePlayUnmarked(s) == s

handlePlay(s) == safeSetState(safeSetState(s, "isPlaying", TRUE), "errorState", NoError)

handlePause(s) == safeSetState(s, "isPlaying", FALSE)

\* setCurrentTime(0) is not guarded by safeSetState.
handleEnded(s) == [safeSetState(s, "isPlaying", FALSE) EXCEPT !.currentTime = 0]

handleVolumeChange(s) ==
    safeSetState(safeSetState(s, "volume", el.volume), "isMuted", el.muted)

\* Number.isFinite(audio.duration) holds once the metadata is there.
handleDurationChange(s) ==
    IF el.meta THEN safeSetState(s, "duration", SongDuration(el.src)) ELSE s

handleTimeUpdate(s) == safeSetState(s, "currentTime", el.time)

handleLoadStart(s) ==
    safeSetState(safeSetState(s, "isLoading", TRUE), "errorState", NoError)

handleCanPlay(s) == handleDurationChange(safeSetState(s, "isLoading", FALSE))

\* The catch of the automatic play() attempt.
autoplayRejected(s) ==
    safeSetState(safeSetState(handleError(s), "canAutoplay", FALSE), "isPlaying", FALSE)

\* The listener (or promise reaction) a queued task runs.
HandleDefensive(e, s) ==
    CASE e = "play" -> handlePlay(s)
      [] e = "pause" -> handlePause(s)
      [] e = "ended" -> handleEnded(s)
      [] e = "volumechange" -> handleVolumeChange(s)
      [] e = "durationchange" -> handleDurationChange(s)
      [] e = "timeupdate" -> handleTimeUpdate(s)
      [] e = "loadstart" -> handleLoadStart(s)
      [] e = "canplay" -> handleCanPlay(s)
      [] e = "error" -> handleError(s)
      [] e = "rejManual" -> handleError(s)
      [] e = "rejAuto" -> autoplayRejected(s)
      [] OTHER -> s

\* The option callbacks a task's handler calls.
CallbacksDefensive(e) ==
    CASE e = "play" -> {"onPlay"}
      [] e = "pause" -> {"onPause"}
      [] e = "ended" -> {"onEnded"}
      [] e = "volumechange" -> {"onVolumeChange", "onMuteToggle"}
      [] e \in {"error", "rejManual", "rejAuto"} -> {"onError"}
      [] OTHER -> {}

\* The effect's cleanup, on the element: audio.pause().
CleanupDefensive(m) == ElPause(m)

\* The effect body for the render with state s: source, clamped volume,
\* muted, loop, then the automatic play() attempt.
EffectDefensive(m, s) ==
    LET m1 == ElLoad(m, s.currentSong)
        m2 == ElSetVolume(m1, ClampVolume(s.volume))
        m3 == ElSetMuted(m2, s.isMuted)
        m4 == [m3 EXCEPT !.el.loop = opts.loop]
    IN IF opts.autoPlay /\ ~s.isPlaying /\ s.canAutoplay
       THEN ElPlay(m4, "auto", allowed)
       ELSE m4

\* The control functions.  Closures read st; setState writes s (nx); the
\* result holds the element, the state and the callbacks called.

\* play(): setCanAutoplay(true), then audio.play(); the catch is handleError.
play(m, s) ==
    [m |-> ElPlay(m, "manual", allowed), s |-> [s EXCEPT !.canAutoplay = TRUE],
     cbs |-> {}]

\* pause(): audio.pause() when the element is not paused.
pause(m, s) == [m |-> IF ~m.el.paused THEN ElPause(m) ELSE m, s |-> s, cbs |-> {}]

\* togglePlay(): play() when the element is paused, else pause().
togglePlay(m, s) == IF m.el.paused THEN play(m, s) ELSE pause(m, s)

\* setVolume(v): the clamped volume goes to the element only.
setAudioVolume(m, s, v) == [m |-> ElSetVolume(m, ClampVolume(v)), s |-> s, cbs |-> {}]

\* toggleMute(): the element's muted flag is flipped.
toggleMute(m, s) == [m |-> ElSetMuted(m, ~m.el.muted), s |-> s, cbs |-> {}]

\* changeSong(url): only for a url other than the rendered currentSong;
\* wasPlaying is computed and not used.
changeSong(m, s, url) ==
    IF url # st.currentSong
    THEN [m |-> m,
          s |-> safeSetState(safeSetState(s, "isLoading", TRUE), "currentSong", url),
          cbs |-> {"onSongChange"}]
    ELSE [m |-> m, s |-> s, cbs |-> {}]

\* A seekTo without the clamp: what C6 must tell from seekTo.
seekToUnclamped(m, s, t) ==
    [m |-> ElSeek(m, t), s |-> safeSetState(s, "currentTime", t), cbs |-> {}]

\* seekTo(t): clamped to the rendered duration, to the element and the state.
seekTo(m, s, t) ==
    LET clampedTime == ClampTime(t, st.duration)
    IN [m |-> ElSeek(m, clampedTime),
        s |-> safeSetState(s, "currentTime", clampedTime), cbs |-> {}]

\* ----------------------------------------------- the hook, first variant

\* audio.duration before the metadata is there.
NotANumber == 0 - 1

\* The first variant's listeners set the state directly and call no callback;
\* the catch callbacks only log; the then of play() marks playing.
HandleFirst(e, s) ==
    CASE e = "play" -> [s EXCEPT !.isPlaying = TRUE]
      [] e = "pause" -> [s EXCEPT !.isPlaying = FALSE]
      [] e = "volumechange" -> [s EXCEPT !.volume = el.volume]
      [] e = "durationchange" ->
            [s EXCEPT !.duration = IF el.meta THEN SongDuration(el.src) ELSE NotANumber]
      [] e = "timeupdate" -> [s EXCEPT !.currentTime = el.time]
      [] e = "loadstart" -> [s EXCEPT !.isLoading = TRUE]
      [] e = "canplay" -> [s EXCEPT !.isLoading = FALSE]
      [] e = "thenManual" -> IF phase = "live" THEN [s EXCEPT !.isPlaying = TRUE] ELSE s
      [] OTHER -> s

CallbacksFirst(e) == IF e = "thenManual" THEN {"onPlay"} ELSE {}

\* The first variant's cleanup only removes the listeners.
CleanupFirst(m) == m

\* The first variant's effect: source, volume as stored, muted, loop = true,
\* then play() when autoPlay is set and the render is not playing.
EffectFirst(m, s) ==
    LET m1 == ElLoad(m, s.currentSong)
        m2 == ElSetVolume(m1, s.volume)
        m3 == ElSetMuted(m2, s.isMuted)
        m4 == [m3 EXCEPT !.el.loop = TRUE]
    IN IF opts.autoPlay /\ ~s.isPlaying THEN ElPlay(m4, "auto", allowed) ELSE m4

\* play(): audio.play(); its then sets isPlaying, its catch logs.
playFirst(m, s) == [m |-> ElPlay(m, "manual", allowed), s |-> s, cbs |-> {}]

\* pause(): audio.pause(), setIsPlaying(false) and onPause, in every case.
pauseFirst(m, s) ==
    [m |-> ElPause(m), s |-> [s EXCEPT !.isPlaying = FALSE], cbs |-> {"onPause"}]

\* togglePlay(): decided by the rendered isPlaying.
togglePlayFirst(m, s) == IF st.isPlaying THEN pauseFirst(m, s) ELSE playFirst(m, s)

\* setVolume(v): the clamped volume goes to the element and to the state.
setAudioVolumeFirst(m, s, v) ==
    [m |-> ElSetVolume(m, ClampVolume(v)), s |-> [s EXCEPT !.volume = ClampVolume(v)],
     cbs |-> {"onVolumeChange"}]

toggleMuteFirst(m, s) ==
    [m |-> ElSetMuted(m, ~m.el.muted), s |-> [s EXCEPT !.isMuted = ~m.el.muted],
     cbs |-> {"onMuteToggle"}]

\* changeSong(url): the source is set at once, and play() is called when the
\* element was playing.
changeSongFirst(m, s, url) ==
    LET wasPlaying == ~m.el.paused
        m1 == ElLoad(m, url)
    IN [m |-> IF wasPlaying THEN ElPlay(m1, "auto", allowed) ELSE m1,
        s |-> [s EXCEPT !.currentSong = url], cbs |-> {"onSongChange"}]

\* seekTo(t): clamped to the rendered duration; the state reads the element's
\* position back.  A NaN position makes the assignment throw.
seekToFirst(m, s, t) ==
    IF st.duration = NotANumber THEN [m |-> m, s |-> s, cbs |-> {}]
    ELSE LET m1 == ElSeek(m, ClampTime(t, st.duration))
         IN [m |-> m1, s |-> [s EXCEPT !.currentTime = m1.el.time], cbs |-> {}]

\* ------------------------------------------------------------ the actions

Here == [el |-> el, q |-> events]

\* The fields of the state that closures read: changeSong reads currentSong,
\* seekTo reads duration, togglePlay (first variant) reads isPlaying, the
\* effect reads currentSong, volume, isMuted, isPlaying and canAutoplay.
Rendered(s) ==
    [isPlaying |-> s.isPlaying, isMuted |-> s.isMuted, volume |-> s.volume,
     currentSong |-> s.currentSong, duration |-> s.duration,
     canAutoplay |-> s.canAutoplay]

\* The effect's dependencies that are state: currentSong and canAutoplay in
\* the defensive variant, currentSong and isPlaying in the first.
DepsChanged(old, new) ==
    \/ old.currentSong # new.currentSong
    \/ Defensive /\ old.canAutoplay # new.canAutoplay
    \/ ~Defensive /\ old.isPlaying # new.isPlaying

Effect(m, s) == IF Defensive THEN EffectDefensive(m, s) ELSE EffectFirst(m, s)

Cleanup(m) == IF Defensive THEN CleanupDefensive(m) ELSE CleanupFirst(m)

\* The oldest queued task runs, a waiting microtask before every other step.
\* A media event reaches the hook only while its listeners are registered; a
\* promise reaction always runs.
Deliver ==
    /\ events # <<>>
    /\ LET e == Head(events)
           heard == IsReaction(e) \/ listeners > 0
       IN /\ nx' = IF ~heard THEN nx
                   ELSE IF Defensive THEN HandleDefensive(e, nx) ELSE HandleFirst(e, nx)
          /\ last' = [op |-> "deliver", arg |-> 0, what |-> e,
                      fired |-> IF ~heard THEN {}
                                ELSE IF Defensive THEN CallbacksDefensive(e)
                                ELSE CallbacksFirst(e)]
    /\ modal' = IF \E u \in Songs : Head(events) = ThenModal(u)
                THEN [modal EXCEPT
                        !.currentSong = CHOOSE u \in Songs : Head(events) = ThenModal(u),
                        !.isPlaying = TRUE]
                ELSE IF modal.listening /\ Head(events) \in {"play", "pause"}
                THEN [modal EXCEPT !.isPlaying = (Head(events) = "play")]
                ELSE modal
    /\ events' = Tail(events)
    /\ UNCHANGED <<page, cd, gb, opts, phase, isMountedRef, listeners, st, el, allowed, call>>

\* The effect runs for the first time.
Mount ==
    LET m == Effect(Here, nx)
    IN /\ phase = "init"
       /\ NoMicrotask(events)
       /\ Len(m.q) <= MaxQueue
       /\ phase' = "live"
       /\ isMountedRef' = TRUE
       /\ listeners' = listeners + 1
       /\ el' = m.el
       /\ events' = m.q
       /\ last' = [op |-> "mount", arg |-> 0, what |-> NoSrc, fired |-> {}]
       /\ UNCHANGED <<page, modal, cd, gb, opts, st, nx, allowed, call>>

\* React commits the queued state updates; when a dependency changed the
\* effect's cleanup runs and then the effect, with the new render's state.
\* The step is numbered 0 without a re-run, 1 for a re-run with a new
\* currentSong, 2 for any other re-run.
Render ==
    LET rerun == DepsChanged(st, nx)
        m == IF rerun THEN Effect(Cleanup(Here), nx) ELSE Here
    IN /\ phase = "live"
       /\ NoMicrotask(events)
       /\ Rendered(nx) # st
       /\ Len(m.q) <= MaxQueue
       /\ st' = Rendered(nx)
       /\ el' = m.el
       /\ events' = m.q
       /\ last' = [op |-> "render",
                   arg |-> IF ~rerun THEN 0
                           ELSE IF st.currentSong # nx.currentSong THEN 1 ELSE 2,
                   what |-> NoSrc, fired |-> {}]
       /\ UNCHANGED <<page, modal, cd, gb, opts, phase, isMountedRef, listeners, nx, allowed, call>>

\* The owner unmounts: the cleanup runs and nothing re-runs the effect.
Unmount ==
    LET m == Cleanup(Here)
    IN /\ phase = "live"
       /\ NoMicrotask(events)
       /\ Len(m.q) <= MaxQueue
       /\ phase' = "gone"
       /\ isMountedRef' = FALSE
       /\ listeners' = listeners - 1
       /\ el' = m.el
       /\ events' = m.q
       /\ last' = [op |-> "unmount", arg |-> 0, what |-> NoSrc, fired |-> {}]
       /\ UNCHANGED <<page, modal, cd, gb, opts, st, nx, allowed, call>>

\* Nothing is in flight: every queued task has run and every update is rendered.
Quiet == phase = "live" /\ events = <<>> /\ Rendered(nx) = st

\* What a control-function call finds: the hook quiet and paused, quiet and
\* playing, or something else; whether play() would be granted; and the
\* stored isMuted and volume.
Found ==
    [was |-> IF Quiet /\ el.paused /\ ~nx.isPlaying THEN "paused"
             ELSE IF Quiet /\ ~el.paused /\ nx.isPlaying THEN "playing"
             ELSE "other",
     granted |-> allowed, isMuted |-> nx.isMuted, volume |-> nx.volume]

\* A call of a control function with a number or a url: r is its result.  A
\* togglePlay() that follows a togglePlay() directly is recorded as
\* "togglePlay2" and keeps what the first one found; likewise "toggleMute2".
Call(name, arg, url, r) ==
    LET second == name \in {"togglePlay", "toggleMute"} /\ call.op = name
    IN /\ phase = "live"
       /\ NoMicrotask(events)
       /\ Len(r.m.q) <= MaxQueue
       /\ el' = r.m.el
       /\ events' = r.m.q
       /\ nx' = r.s
       /\ last' = [op |-> name, arg |-> arg, what |-> url, fired |-> r.cbs]
       /\ call' = [op |-> IF second THEN name \o "2" ELSE name, arg |-> arg,
                   what |-> url, found |-> IF second THEN call.found ELSE Found]
       /\ UNCHANGED <<page, modal, cd, gb, opts, phase, isMountedRef, listeners, st, allowed>>

Play == Call("play", 0, NoSrc, IF Defensive THEN play(Here, nx) ELSE playFirst(Here, nx))

Pause == Call("pause", 0, NoSrc, IF Defensive THEN pause(Here, nx) ELSE pauseFirst(Here, nx))

TogglePlay ==
    Call("togglePlay", 0, NoSrc,
         IF Defensive THEN togglePlay(Here, nx) ELSE togglePlayFirst(Here, nx))

SetVolume ==
    \E v \in VolumeInputs :
        Call("setVolume", v, NoSrc,
             IF Defensive THEN setAudioVolume(Here, nx, v)
             ELSE setAudioVolumeFirst(Here, nx, v))

ToggleMute ==
    Call("toggleMute", 0, NoSrc,
         IF Defensive THEN toggleMute(Here, nx) ELSE toggleMuteFirst(Here, nx))

\* The call is recorded as "changeSong" when url differs from the element's
\* source and as "changeSongSame" when it does not.
ChangeSong ==
    \E url \in Songs :
        Call(IF url # el.src THEN "changeSong" ELSE "changeSongSame", 0, url,
             IF Defensive THEN changeSong(Here, nx, url)
             ELSE changeSongFirst(Here, nx, url))

SeekTo ==
    \E t \in SeekInputs :
        Call("seekTo", t, NoSrc,
             IF Defensive THEN seekTo(Here, nx, t) ELSE seekToFirst(Here, nx, t))

\* A number passed to formatTime: finite, in tenths of a second, or NaN,
\* Infinity or -Infinity.
TimeArguments ==
    [kind : {"finite"}, tenths : {0 - 601, 0 - 5, 0 - 1, 0, 5, 99, 100, 599, 600, 605, 7259}]
        \cup [kind : {"NaN", "Infinity", "-Infinity"}, tenths : {0}]

\* JavaScript's %: the remainder has the sign of the dividend.
Remainder(a, b) == IF a >= 0 THEN a % b ELSE 0 - ((0 - a) % b)

\* The template `${minutes}:${seconds < 10 ? '0' : ''}${seconds}` for finite
\* minutes and seconds.
MinutesAndSeconds(minutes, seconds) ==
    ToString(minutes) \o ":" \o (IF seconds < 10 THEN "0" ELSE "") \o ToString(seconds)

\* The first variant's formatTime: no guard.  NaN gives NaN minutes and
\* seconds, an infinity gives infinite minutes and NaN seconds; NaN < 10 is
\* false.
formatTimeFirst(x) ==
    CASE x.kind = "finite" ->
            MinutesAndSeconds(x.tenths \div 600, Remainder(x.tenths, 600) \div 10)
      [] x.kind = "NaN" -> "NaN:NaN"
      [] OTHER -> x.kind \o ":NaN"

\* The defensive variant's formatTime: "0:00" for a number that is not finite
\* or is negative.
formatTime(x) ==
    IF x.kind # "finite" \/ x.tenths < 0 THEN "0:00"
    ELSE MinutesAndSeconds(x.tenths \div 600, Remainder(x.tenths, 600) \div 10)

\* The owner formats a time.
FormatTime ==
    \E x \in TimeArguments :
        /\ last' = [op |-> "formatTime", arg |-> x.tenths,
                    what |-> IF Defensive THEN formatTime(x) ELSE formatTimeFirst(x),
                    fired |-> {}]
        /\ call' = [op |-> "formatTime", arg |-> x.tenths, what |-> x.kind, found |-> Found]
        /\ UNCHANGED <<page, modal, cd, gb, opts, phase, isMountedRef, listeners, st, nx, el,
                       events, allowed>>

\* SongListModal.handlePlaySong(song), called with the hook's audioRef: a click
\* on the song the modal believes it plays pauses the element; any other click
\* assigns the element's src and calls play(), whose then records the song.
handlePlaySong(m, s, song) ==
    IF s.currentSong = song /\ s.isPlaying
    THEN [m |-> ElPause(m), s |-> [s EXCEPT !.isPlaying = FALSE]]
    ELSE [m |-> ElPlay(ElLoad(m, song), "modal", allowed), s |-> s]

\* A click on a song of the modal's list.
HandlePlaySong ==
    \E song \in Songs :
        LET r == handlePlaySong(Here, modal, song)
        IN /\ phase = "live"
           /\ modal.listening
           /\ NoMicrotask(events)
           /\ Len(r.m.q) <= MaxQueue
           /\ el' = r.m.el
           /\ events' = r.m.q
           /\ modal' = r.s
           /\ last' = [op |-> "handlePlaySong", arg |-> 0, what |-> song, fired |-> {}]
           /\ call' = [op |-> "handlePlaySong", arg |-> 0, what |-> song, found |-> Found]
           /\ UNCHANGED <<page, cd, gb, opts, phase, isMountedRef, listeners, st, nx, allowed>>

\* The modal's effect registers its play and pause listeners on the element.
\* The modal is a child of the hook's owner: its effect runs in the commit of
\* the first render, before the hook's.
ModalMount ==
    /\ phase = "init"
    /\ ~modal.listening
    /\ modal' = [modal EXCEPT !.listening = TRUE]
    /\ last' = [op |-> "modalMount", arg |-> 0, what |-> NoSrc, fired |-> {}]
    /\ UNCHANGED <<page, cd, gb, opts, phase, isMountedRef, listeners, st, nx, el, events,
                   allowed, call>>

\* ----------------------------------------------------------- the countdown

\* The clock counts units of half a second.
Second == 2
Minute == 60 * Second
Hour == 60 * Minute
Day == 24 * Hour
Year == 365 * Day

\* April 15th of the year the clock starts in, on the clock.
Birthday == 2 * Second

\* The targetDate values an owner passes: a past instant, the instant of the
\* mount, half a second, 90 seconds and more than a day after it.
TargetDates == {0 - Second, 0, 1, 90 * Second, Day + Hour + Minute + 3}

ZeroTime == [days |-> 0, hours |-> 0, minutes |-> 0, seconds |-> 0]

TotalSeconds(t) == ((t.days * 24 + t.hours) * 60 + t.minutes) * 60 + t.seconds

\* The calendar.  The clock's 0 lies Birthday units before April 15th, 00:00,
\* of FirstYear, which is not a leap year.
FirstYear == 2025

LeapYear(y) == (y % 4 = 0 /\ y % 100 # 0) \/ y % 400 = 0

DaysIn(y) == IF LeapYear(y) THEN 366 ELSE 365

\* The days of year y before its April 15th: January, February, March, 14.
DaysBeforeApril15(y) == 31 + (IF LeapYear(y) THEN 29 ELSE 28) + 31 + 14

\* The clock's 0, in units after January 1st, 00:00, of FirstYear.
Epoch == DaysBeforeApril15(FirstYear) * Day - Birthday

\* January 1st, 00:00, of year y, on the clock.
RECURSIVE YearStart(_)
YearStart(y) ==
    IF y <= FirstYear THEN 0 - Epoch ELSE YearStart(y - 1) + DaysIn(y - 1) * Day

\* new Date(y, 3, 15): April 15th, 00:00, of year y, on the clock.
April15(y) == YearStart(y) + DaysBeforeApril15(y) * Day

\* Date.getFullYear() of an instant of the clock, FirstYear or later.
RECURSIVE FullYearFrom(_, _)
FullYearFrom(today, y) == IF today < YearStart(y + 1) THEN y ELSE FullYearFrom(today, y + 1)

getFullYear(today) == FullYearFrom(today, FirstYear)

\* A default date that is this year's April 15th in every case: what C23 must
\* tell from defaultTargetDate.
defaultTargetDateThisYear(today) == April15(getFullYear(today))

\* defaultTargetDate(): April 15th of today's year, and of the next year when
\* today is after it.
defaultTargetDate(today) ==
    LET nextBirthday == April15(getFullYear(today))
    IN IF today > nextBirthday THEN April15(getFullYear(today) + 1) ELSE nextBirthday

\* A calculation that counts a target reached only once it is passed: what
\* C19 must tell from calculateTimeLeft.
calculateTimeLeftStrict(now, targetTime) ==
    LET difference == targetTime - now
    IN IF difference < 0 THEN [timeLeft |-> ZeroTime, ended |-> TRUE]
       ELSE [timeLeft |-> [days |-> difference \div Day,
                           hours |-> (difference % Day) \div Hour,
                           minutes |-> (difference % Hour) \div Minute,
                           seconds |-> (difference % Minute) \div Second],
             ended |-> FALSE]

\* A calculation that does not reduce the minutes by the hours: what C18 must
\* tell from calculateTimeLeft.
calculateTimeLeftWholeMinutes(now, targetTime) ==
    LET difference == targetTime - now
    IN IF difference <= 0 THEN [timeLeft |-> ZeroTime, ended |-> TRUE]
       ELSE [timeLeft |-> [days |-> difference \div Day,
                           hours |-> (difference % Day) \div Hour,
                           minutes |-> difference \div Minute,
                           seconds |-> difference \div Second],
             ended |-> FALSE]

\* calculateTimeLeft(): the difference in clock units, a whole number of half
\* seconds, so floor(ms / (1000 * k)) is difference \div (Second * k).  ended
\* says that setCountdownEnded(true) was called.
calculateTimeLeft(now, targetTime) ==
    LET difference == targetTime - now
    IN IF difference <= 0 THEN [timeLeft |-> ZeroTime, ended |-> TRUE]
       ELSE [timeLeft |-> [days |-> difference \div Day,
                           hours |-> (difference % Day) \div Hour,
                           minutes |-> (difference % Hour) \div Minute,
                           seconds |-> (difference % Minute) \div Second],
             ended |-> FALSE]

\* finalTargetDate of a render: the owner's targetDate, or a new default date.
finalTargetDate(c) == IF c.explicit THEN c.targetDate ELSE defaultTargetDate(c.now)

\* The effect: the initial calculation (a new countdownTime object, hence a
\* re-render) and a new interval, due in a second.  past records that the
\* target was not after the clock at this calculation.
CountdownEffect(c) ==
    LET r == calculateTimeLeft(c.now, finalTargetDate(c))
    IN [c EXCEPT !.target = finalTargetDate(c), !.past = finalTargetDate(c) <= c.now,
                 !.countdownTime = r.timeLeft,
                 !.countdownEnded = @ \/ r.ended,
                 !.dirty = TRUE, !.ran = TRUE, !.asked = {}, !.returned = {},
                 !.timer = TRUE, !.timers = @ + 1, !.due = c.now + Second]

\* The effect's cleanup: clearInterval(timer), of this effect's interval.
CountdownCleanup(c) ==
    [c EXCEPT !.timers = IF c.timer THEN @ - 1 ELSE @, !.timer = FALSE]

\* The interval callback: recalculates, and at all zeros sets countdownEnded
\* and clears the interval.
IntervalTick(c) ==
    LET r == calculateTimeLeft(c.now, c.target)
        zero == /\ r.timeLeft.days = 0 /\ r.timeLeft.hours = 0
                /\ r.timeLeft.minutes = 0 /\ r.timeLeft.seconds = 0
    IN [c EXCEPT !.countdownTime = r.timeLeft,
                 !.countdownEnded = @ \/ r.ended \/ zero,
                 !.dirty = TRUE, !.ran = TRUE, !.asked = {}, !.returned = {},
                 !.timer = ~zero, !.timers = IF zero THEN @ - 1 ELSE @,
                 !.due = c.now + Second]

\* The optional argument of resetCountdown: no date, or one.
NewTargetDates == {{}} \cup {{d} : d \in TargetDates}

\* A reset that leaves countdownEnded: what C21 must tell from resetCountdown.
resetCountdownStillEnded(c, newTargetDate) ==
    [c EXCEPT !.countdownTime = ZeroTime, !.dirty = TRUE, !.ran = FALSE,
              !.asked = newTargetDate,
              !.returned = IF newTargetDate = {} THEN {defaultTargetDate(c.now)}
                           ELSE newTargetDate]

\* resetCountdown(newTargetDate?): ended is cleared and the time zeroed; the
\* date it returns, newTargetDate || defaultTargetDate(), is stored nowhere
\* in the hook.
resetCountdown(c, newTargetDate) ==
    [c EXCEPT !.countdownEnded = FALSE, !.countdownTime = ZeroTime,
              !.dirty = TRUE, !.ran = FALSE, !.asked = newTargetDate,
              !.returned = IF newTargetDate = {} THEN {defaultTargetDate(c.now)}
                           ELSE newTargetDate]

\* A formatCountdown that leaves out every zero unit but the seconds: what
\* C22 must tell from formatCountdown.
formatCountdownNoZeros(t) ==
    (IF t.days > 0 THEN ToString(t.days) \o "d " ELSE "")
        \o (IF t.hours > 0 THEN ToString(t.hours) \o "h " ELSE "")
        \o (IF t.minutes > 0 THEN ToString(t.minutes) \o "m " ELSE "")
        \o ToString(t.seconds) \o "s"

\* formatCountdown(), of the countdownTime t.
formatCountdown(t) ==
    IF t.days > 0
    THEN ToString(t.days) \o "d " \o ToString(t.hours) \o "h "
             \o ToString(t.minutes) \o "m " \o ToString(t.seconds) \o "s"
    ELSE IF t.hours > 0
    THEN ToString(t.hours) \o "h " \o ToString(t.minutes) \o "m "
             \o ToString(t.seconds) \o "s"
    ELSE IF t.minutes > 0
    THEN ToString(t.minutes) \o "m " \o ToString(t.seconds) \o "s"
    ELSE ToString(t.seconds) \o "s"

\* The owner renders the formatted countdown.
FormatCountdown ==
    /\ cd' = [cd EXCEPT !.text = formatCountdown(cd.countdownTime), !.op = "format"]
    /\ UNCHANGED <<page, opts, phase, isMountedRef, listeners, st, nx, el, events, allowed,
                   last, call, modal, gb>>

\* The owner mounts: the effect runs for the first time.
CountdownMount ==
    /\ cd.phase = "init"
    /\ cd' = [CountdownEffect(cd) EXCEPT !.phase = "live", !.op = "mount"]
    /\ UNCHANGED <<page, opts, phase, isMountedRef, listeners, st, nx, el, events, allowed,
                   last, call, modal, gb>>

\* A state update of the hook is rendered.  Without a targetDate the render
\* makes a new default date, the effect's dependency, and the effect re-runs.
CountdownRender ==
    /\ cd.phase = "live" /\ cd.dirty
    /\ cd' = IF cd.explicit
             THEN [cd EXCEPT !.dirty = FALSE, !.ran = FALSE, !.asked = {}, !.returned = {},
                             !.op = "render"]
             ELSE [CountdownEffect(CountdownCleanup([cd EXCEPT !.dirty = FALSE]))
                       EXCEPT !.op = "render"]
    /\ UNCHANGED <<page, opts, phase, isMountedRef, listeners, st, nx, el, events, allowed,
                   last, call, modal, gb>>

\* The owner re-renders the hook with another targetDate: the effect re-runs.
Retarget ==
    \E d \in TargetDates :
        /\ cd.phase = "live" /\ cd.explicit /\ d # cd.targetDate
        /\ cd' = [CountdownEffect(CountdownCleanup(
                                     [cd EXCEPT !.targetDate = d, !.dirty = FALSE]))
                     EXCEPT !.op = "retarget"]
        /\ UNCHANGED <<page, opts, phase, isMountedRef, listeners, st, nx, el, events,
                       allowed, last, call, modal, gb>>

\* The clock advances by one unit, while no tick is later than MaxLate.
Advance ==
    /\ cd.phase = "live"
    /\ cd.now < Horizon * Second
    /\ cd.timer => cd.now < cd.due + MaxLate
    /\ cd' = [cd EXCEPT !.now = @ + 1, !.ran = FALSE, !.asked = {}, !.returned = {},
                        !.op = "advance"]
    /\ UNCHANGED <<page, opts, phase, isMountedRef, listeners, st, nx, el, events, allowed,
                   last, call, modal, gb>>

\* An interval of the hook fires.
Tick ==
    /\ cd.timers > 0 /\ cd.timer
    /\ cd.now >= cd.due
    /\ cd' = [IntervalTick(cd) EXCEPT !.op = "tick"]
    /\ UNCHANGED <<page, opts, phase, isMountedRef, listeners, st, nx, el, events, allowed,
                   last, call, modal, gb>>

ResetCountdown ==
    \E newTargetDate \in NewTargetDates :
    /\ cd.phase = "live"
    /\ cd' = [resetCountdown(cd, newTargetDate) EXCEPT !.op = "reset"]
    /\ UNCHANGED <<page, opts, phase, isMountedRef, listeners, st, nx, el, events, allowed,
                   last, call, modal, gb>>

\* The owner unmounts: the cleanup runs.
CountdownUnmount ==
    /\ cd.phase = "live"
    /\ cd' = [CountdownCleanup(cd) EXCEPT !.phase = "gone", !.ran = FALSE,
                                          !.asked = {}, !.returned = {}, !.op = "unmount"]
    /\ UNCHANGED <<page, opts, phase, isMountedRef, listeners, st, nx, el, events, allowed,
                   last, call, modal, gb>>

\* The hook after its first render, called with targetDate d, or with none.
InitialCountdown(explicit, d) ==
    [phase |-> "init", now |-> 0, explicit |-> explicit, targetDate |-> d,
     target |-> 0, past |-> FALSE,
     countdownTime |-> ZeroTime, countdownEnded |-> FALSE,
     dirty |-> FALSE, ran |-> FALSE, timer |-> FALSE, timers |-> 0, due |-> 0,
     asked |-> {}, returned |-> {}, text |-> "", op |-> "init"]

\* ----------------------------------------------------------- the guestbook

\* What is typed into the name and message fields.
TextInputs == {"", " ", "a"}

\* String.trim() on these inputs.
Trim(s) == IF s = " " THEN "" ELSE s

\* The view's useState initial values; pending counts the timeouts this
\* instance started, orphans those of instances that were unmounted.
InitialGuestbook(orphans) ==
    [mounted |-> TRUE, nameInput |-> "", messageInput |-> "", showThankYou |-> FALSE,
     pending |-> 0, orphans |-> orphans, op |-> "open"]

ClosedGuestbook(orphans) == [InitialGuestbook(orphans) EXCEPT !.mounted = FALSE, !.op = "back"]

\* handleSubmitMessage: with a name and a message, the thank-you note is
\* shown, the fields are emptied and a timeout of 3 seconds is started.
handleSubmitMessage(g) ==
    IF Trim(g.nameInput) # "" /\ Trim(g.messageInput) # ""
    THEN [g EXCEPT !.showThankYou = TRUE, !.nameInput = "", !.messageInput = "",
                   !.pending = @ + 1]
    ELSE g

\* The stage becomes "guestbook": a new instance of the view is mounted.
GuestbookOpen ==
    /\ ~gb.mounted
    /\ gb' = InitialGuestbook(gb.orphans)
    /\ UNCHANGED <<page, opts, phase, isMountedRef, listeners, st, nx, el, events, allowed,
                   last, call, modal, cd>>

TypeName ==
    \E v \in TextInputs :
        /\ gb.mounted /\ ~gb.showThankYou /\ v # gb.nameInput
        /\ gb' = [gb EXCEPT !.nameInput = v, !.op = "type"]
        /\ UNCHANGED <<page, opts, phase, isMountedRef, listeners, st, nx, el, events,
                       allowed, last, call, modal, cd>>

TypeMessage ==
    \E v \in TextInputs :
        /\ gb.mounted /\ ~gb.showThankYou /\ v # gb.messageInput
        /\ gb' = [gb EXCEPT !.messageInput = v, !.op = "type"]
        /\ UNCHANGED <<page, opts, phase, isMountedRef, listeners, st, nx, el, events,
                       allowed, last, call, modal, cd>>

\* The form is submitted; it is rendered only while the note is not shown.
SubmitMessage ==
    /\ gb.mounted /\ ~gb.showThankYou
    /\ gb.pending + gb.orphans < MaxTimeouts
    /\ gb' = [handleSubmitMessage(gb) EXCEPT !.op = "submit"]
    /\ UNCHANGED <<page, opts, phase, isMountedRef, listeners, st, nx, el, events, allowed,
                   last, call, modal, cd>>

\* A timeout of the mounted instance fires: setShowThankYou(false).
TimeoutFires ==
    /\ gb.pending > 0
    /\ gb' = [gb EXCEPT !.pending = @ - 1, !.showThankYou = FALSE, !.op = "timeout"]
    /\ UNCHANGED <<page, opts, phase, isMountedRef, listeners, st, nx, el, events, allowed,
                   last, call, modal, cd>>

\* A timeout of an unmounted instance fires and sets that instance's state.
OrphanFires ==
    /\ gb.orphans > 0
    /\ gb' = [gb EXCEPT !.orphans = @ - 1, !.op = "orphan"]
    /\ UNCHANGED <<page, opts, phase, isMountedRef, listeners, st, nx, el, events, allowed,
                   last, call, modal, cd>>

\* Back to Categories: the view is unmounted; it has no effect and no cleanup,
\* so its timeouts stay pending.
BackToCategories ==
    /\ gb.mounted
    /\ gb' = ClosedGuestbook(gb.orphans + gb.pending)
    /\ UNCHANGED <<page, opts, phase, isMountedRef, listeners, st, nx, el, events, allowed,
                   last, call, modal, cd>>

\* ---------------------------------------------------------------- the page

Stages ==
    {"countdown", "greeting", "video", "selection", "result", "partyRoom",
     "guestbook", "slideshow", "poem", "gift", "photoBoothResult"}

NoSelection == "null"

\* The food table; the accented letters of two place names are written plain.
foodData ==
    [lightFood |->
        [dishes |-> <<"Caprese Salad", "Avocado Toast", "Greek Yogurt Parfait",
                      "Vegetable Sushi Roll">>,
         places |-> <<"Cafe Bella", "Green Leaf Bistro", "Sunny Side Cafe", "Urban Eats">>],
     heavyFood |->
        [dishes |-> <<"Grilled Steak with Mashed Potatoes", "Chicken Alfredo Pasta",
                      "BBQ Pork Ribs", "Vegetable Lasagna">>,
         places |-> <<"The Grill House", "Italian Villa", "Smokehouse BBQ",
                      "Mama's Kitchen">>],
     dessert |->
        [dishes |-> <<"Chocolate Lava Cake", "Cheesecake with Berry Compote",
                      "Tiramisu", "Creme Brulee">>,
         places |-> <<"Sweet Escape Bakery", "Dessert Haven", "Cocoa Bliss",
                      "Sugar Spoon">>],
     drinks |->
        [dishes |-> <<"Mango Mojito", "Iced Caramel Latte", "Strawberry Smoothie",
                      "Sparkling Lemonade">>,
         places |-> <<"Juice Junction", "Brewed Awakening", "Smoothie Stop",
                      "Fizz & Sip">>]]

Categories == DOMAIN foodData

\* A category that is no key of foodData.
UnknownCategory == "snacks"

\* Math.floor(Math.random() * list.length), as a position in the list.
RandomIndexes(list) == 1 .. Len(list)

\* handleCategorySelect without setSelectedPlace.
handleCategorySelectNoPlace(s, category, i, j) ==
    IF category \in Categories
    THEN [s EXCEPT !.selectedCategory = category,
                   !.selectedDish = foodData[category].dishes[i],
                   !.stage = "result"]
    ELSE [s EXCEPT !.selectedCategory = category]

\* handleCategorySelect(category) with the two random positions.  For a
\* category that is no key of foodData, categoryData is undefined and reading
\* its dishes throws, after setSelectedCategory.
handleCategorySelect(s, category, i, j) ==
    IF category \in Categories
    THEN [s EXCEPT !.selectedCategory = category,
                   !.selectedDish = foodData[category].dishes[i],
                   !.selectedPlace = foodData[category].places[j],
                   !.stage = "result"]
    ELSE [s EXCEPT !.selectedCategory = category]

\* handleTryAgain that also shows the result stage.
handleTryAgainShowsResult(s, i, j) ==
    IF s.selectedCategory # NoSelection
    THEN [s EXCEPT !.selectedDish = foodData[s.selectedCategory].dishes[i],
                   !.selectedPlace = foodData[s.selectedCategory].places[j],
                   !.stage = "result"]
    ELSE s

\* handleTryAgain(): a new random dish and place of the selected category.
handleTryAgain(s, i, j) ==
    IF s.selectedCategory # NoSelection
    THEN [s EXCEPT !.selectedDish = foodData[s.selectedCategory].dishes[i],
                   !.selectedPlace = foodData[s.selectedCategory].places[j]]
    ELSE s

handleBackToCategories(s) == [s EXCEPT !.stage = "selection"]

\* The page's useState initial values.
InitialPage ==
    [stage |-> "countdown", selectedCategory |-> NoSelection,
     selectedDish |-> NoSelection, selectedPlace |-> NoSelection, op |-> "init",
     arg |-> NoSelection]

\* A click on a category; the random positions are drawn from the lists of
\* the category, or are of no use when it has none.
HandleCategorySelect ==
    \E category \in Categories \cup {UnknownCategory} :
        \E i, j \in 1 .. 4 :
            /\ category \in Categories
                  => /\ i \in RandomIndexes(foodData[category].dishes)
                     /\ j \in RandomIndexes(foodData[category].places)
            /\ category \notin Categories => (i = 1 /\ j = 1)
            /\ page' = [handleCategorySelect(page, category, i, j)
                           EXCEPT !.op = "handleCategorySelect", !.arg = category]
            /\ UNCHANGED <<opts, phase, isMountedRef, listeners, st, nx, el, events,
                           allowed, last, call, modal, cd, gb>>

\* A click on a known category only.
HandleKnownCategorySelect ==
    \E category \in Categories :
        \E i \in RandomIndexes(foodData[category].dishes),
           j \in RandomIndexes(foodData[category].places) :
            /\ page' = [handleCategorySelect(page, category, i, j)
                           EXCEPT !.op = "handleCategorySelect", !.arg = category]
            /\ UNCHANGED <<opts, phase, isMountedRef, listeners, st, nx, el, events,
                           allowed, last, call, modal, cd, gb>>

\* Try again.  With an unknown category selected, reading the dishes throws
\* before any state is set.
HandleTryAgain ==
    \E i, j \in 1 .. 4 :
        /\ page' = IF page.selectedCategory \in Categories \cup {NoSelection}
                   THEN [handleTryAgain(page, i, j)
                           EXCEPT !.op = "handleTryAgain", !.arg = NoSelection]
                   ELSE [page EXCEPT !.op = "handleTryAgain", !.arg = NoSelection]
        /\ UNCHANGED <<opts, phase, isMountedRef, listeners, st, nx, el, events,
                       allowed, last, call, modal, cd, gb>>

HandleBackToCategories ==
    /\ page' = [handleBackToCategories(page)
                   EXCEPT !.op = "handleBackToCategories", !.arg = NoSelection]
    /\ UNCHANGED <<opts, phase, isMountedRef, listeners, st, nx, el, events, allowed,
                   last, call, modal, cd, gb>>

\* A stage component calls setStage, which the page passes down.
SetStage ==
    \E s \in Stages :
        /\ page' = [page EXCEPT !.stage = s, !.op = "setStage", !.arg = s]
        /\ UNCHANGED <<opts, phase, isMountedRef, listeners, st, nx, el, events,
                       allowed, last, call, modal, cd, gb>>

\* ------------------------------------------------------- the state machine

\* useState initial values and a freshly created Audio element.
InitialState ==
    [isPlaying |-> FALSE, isMuted |-> opts.initialMuted, volume |-> opts.initialVolume,
     currentSong |-> defaultSongUrl, duration |-> 0, currentTime |-> 0,
     isLoading |-> TRUE, errorState |-> NoError, canAutoplay |-> TRUE]

\* The modal's useState initial values.
InitialModal == [currentSong |-> NoSrc, isPlaying |-> FALSE, listening |-> FALSE]

NewAudio ==
    [src |-> NoSrc, paused |-> TRUE, volume |-> VolSteps, muted |-> FALSE,
     loop |-> FALSE, time |-> 0, meta |-> FALSE, failed |-> FALSE, pend |-> {}]

\* The state after the first render, for options drawn from a set.  The first
\* variant's effect assigns the volume unclamped, which throws outside [0,1]:
\* it is mounted with an initialVolume inside the range only.
InitAudio(options) ==
    /\ opts \in options
    /\ opts.variant = "first" => opts.initialVolume \in 0 .. VolSteps
    /\ phase = "init"
    /\ isMountedRef = TRUE
    /\ listeners = 0
    /\ st = Rendered(InitialState)
    /\ nx = InitialState
    /\ el = NewAudio
    /\ events = <<>>
    /\ allowed = FALSE
    /\ last = [op |-> "init", arg |-> 0, what |-> NoSrc, fired |-> {}]
    /\ call = [op |-> "none", arg |-> 0, what |-> NoSrc,
               found |-> [was |-> "other", granted |-> FALSE,
                          isMuted |-> FALSE, volume |-> 0]]
    /\ modal = InitialModal
    /\ page = InitialPage

\* The audio hook alone: the countdown is not mounted, the guestbook is closed.
InitWith(options) ==
    /\ InitAudio(options)
    /\ cd = InitialCountdown(FALSE, 0)
    /\ gb = ClosedGuestbook(0)

Variants == {"first", "defensive"}

AllOptions ==
    [variant : Variants, autoPlay : BOOLEAN, loop : BOOLEAN,
     initialVolume : VolumeInputs, initialMuted : BOOLEAN]

Init == InitWith(AllOptions)

Countdown ==
    \/ CountdownMount
    \/ CountdownRender
    \/ Retarget
    \/ Advance
    \/ Tick
    \/ ResetCountdown
    \/ CountdownUnmount

Guestbook ==
    \/ GuestbookOpen
    \/ TypeName
    \/ TypeMessage
    \/ SubmitMessage
    \/ TimeoutFires
    \/ OrphanFires
    \/ BackToCategories

Page ==
    \/ HandleCategorySelect
    \/ HandleTryAgain
    \/ HandleBackToCategories
    \/ SetStage

Environment == Activate \/ MetadataLoaded \/ MediaError \/ Started \/ Progress

Lifecycle == Mount \/ Render \/ Unmount

Next ==
    \/ Environment
    \/ Deliver
    \/ Lifecycle
    \/ Play
    \/ Pause
    \/ TogglePlay
    \/ SetVolume
    \/ ToggleMute
    \/ ChangeSong
    \/ SeekTo
    \/ HandlePlaySong
    \/ Countdown
    \/ Guestbook
    \/ FormatCountdown
    \/ FormatTime
    \/ Page
    \/ ModalMount

Spec == Init /\ [][Next]_vars

\* Playback: both variants, every value of autoPlay and loop, the volume
\* left at the element's default, and the operations on playback and source.
PlaybackOptions ==
    [variant : Variants, autoPlay : BOOLEAN, loop : {TRUE},
     initialVolume : {VolSteps}, initialMuted : {FALSE}]

PlaybackNext ==
    \/ Activate
    \/ MetadataLoaded
    \/ Started
    \/ Deliver
    \/ Lifecycle
    \/ Play
    \/ Pause
    \/ TogglePlay
    \/ ChangeSong

SpecPlayback == InitWith(PlaybackOptions) /\ [][PlaybackNext]_vars

\* Volume: both variants, every initialVolume and initialMuted, no automatic
\* playback, and the operations on volume, mute and source.
VolumeOptions ==
    [variant : Variants, autoPlay : {FALSE}, loop : {TRUE},
     initialVolume : VolumeInputs, initialMuted : BOOLEAN]

VolumeNext ==
    \/ Deliver
    \/ Lifecycle
    \/ SetVolume
    \/ ToggleMute
    \/ ChangeSong

SpecVolume == InitWith(VolumeOptions) /\ [][VolumeNext]_vars

\* Position: both variants, looping or not, no automatic playback, and the
\* operations that move the position or change the resource.
SeekOptions ==
    [variant : Variants, autoPlay : {FALSE}, loop : BOOLEAN,
     initialVolume : {VolSteps}, initialMuted : {FALSE}]

SeekNext ==
    \/ Activate
    \/ MetadataLoaded
    \/ Started
    \/ Progress
    \/ Deliver
    \/ Lifecycle
    \/ Play
    \/ ChangeSong
    \/ SeekTo

SpecSeek == InitWith(SeekOptions) /\ [][SeekNext]_vars

\* Play requests: the defensive variant, with and without automatic playback,
\* a resource that may fail to load and that ends when played through.  The
\* browser's event loop runs every queued task: Deliver is weakly fair.
RequestOptions ==
    [variant : {"defensive"}, autoPlay : BOOLEAN, loop : {FALSE},
     initialVolume : {VolSteps}, initialMuted : {FALSE}]

RequestNext ==
    \/ Environment
    \/ Deliver
    \/ Lifecycle
    \/ Play
    \/ Pause
    \/ ChangeSong

SpecRequests ==
    InitWith(RequestOptions) /\ [][RequestNext]_vars /\ WF_vars(Deliver)

\* The shared element: both variants with automatic playback off, the modal's
\* clicks and the hook's own changeSong and pause.
SharedOptions ==
    [variant : Variants, autoPlay : {FALSE}, loop : {TRUE},
     initialVolume : {VolSteps}, initialMuted : {FALSE}]

SharedNext ==
    \/ Activate
    \/ MetadataLoaded
    \/ Started
    \/ Deliver
    \/ Lifecycle
    \/ ChangeSong
    \/ Pause
    \/ ModalMount
    \/ HandlePlaySong

SpecShared == InitWith(SharedOptions) /\ [][SharedNext]_vars

\* The audio hook as the countdown and guestbook specifications hold it: not
\* yet mounted, with the defaults of its options.
DefaultOptions ==
    [variant : {"defensive"}, autoPlay : {TRUE}, loop : {TRUE},
     initialVolume : {VolSteps}, initialMuted : {FALSE}]

\* The countdown hook called with each targetDate and with none.
CountdownInputs ==
    {InitialCountdown(TRUE, d) : d \in TargetDates} \cup {InitialCountdown(FALSE, 0)}

InitCountdown(inputs) ==
    /\ InitAudio(DefaultOptions)
    /\ cd \in inputs
    /\ gb = ClosedGuestbook(0)

\* The countdown hook with everything its owner can do.
SpecCountdown == InitCountdown(CountdownInputs) /\ [][Countdown]_vars

\* The views that start timers: the countdown's owner, with a target half a
\* second ahead or the default one, and the guestbook.
TimerInputs == {InitialCountdown(TRUE, 1), InitialCountdown(FALSE, 0)}

TimersNext ==
    \/ CountdownMount
    \/ CountdownRender
    \/ Advance
    \/ Tick
    \/ CountdownUnmount
    \/ Guestbook

SpecTimers == InitCountdown(TimerInputs) /\ [][TimersNext]_vars

\* The countdown to a fixed target: the owner passes one targetDate and never
\* another, and does not call resetCountdown.  The clock runs and a due
\* interval fires: Advance and Tick are weakly fair.
FixedTargetInputs == {InitialCountdown(TRUE, d) : d \in TargetDates}

FixedTargetNext ==
    \/ CountdownMount
    \/ CountdownRender
    \/ Advance
    \/ Tick
    \/ CountdownUnmount

SpecFixedTarget ==
    /\ InitCountdown(FixedTargetInputs)
    /\ [][FixedTargetNext]_vars
    /\ WF_vars(Advance)
    /\ WF_vars(Tick)

\* The formatters, applied to inputs drawn from bounded sets: a countdownTime
\* with each unit zero, small or at its largest.
TimeInputs ==
    [days : {0, 1, 2}, hours : {0, 3, 23}, minutes : {0, 2, 59}, seconds : {0, 5, 59}]

FormatInputs == {[InitialCountdown(FALSE, 0) EXCEPT !.countdownTime = t] : t \in TimeInputs}

FormatNext == FormatCountdown \/ FormatTime

SpecFormat ==
    /\ InitAudio(SharedOptions)
    /\ cd \in FormatInputs
    /\ gb = ClosedGuestbook(0)
    /\ [][FormatNext]_vars

\* The default target, for a hook called with no targetDate at instants drawn
\* from a bounded set: in each of four years, one of them a leap year, the
\* start and the end of the year and the instants around April 15th, 00:00.
CalendarYears == FirstYear .. FirstYear + 3

TodayInputs ==
    UNION {{YearStart(y), April15(y) - Day, April15(y) - 1, April15(y),
            April15(y) + 1, April15(y) + Day, YearStart(y + 1) - 1} : y \in CalendarYears}

DefaultTargetInputs == {[InitialCountdown(FALSE, 0) EXCEPT !.now = n] : n \in TodayInputs}

DefaultTargetNext ==
    \/ CountdownMount
    \/ CountdownRender
    \/ ResetCountdown

SpecDefaultTarget == InitCountdown(DefaultTargetInputs) /\ [][DefaultTargetNext]_vars

\* The page's stage controller with every call its children can make.
SpecPage == InitWith(DefaultOptions) /\ [][Page]_vars

\* The stage controller with the calls of C27: a category of the food table,
\* try again, back to categories.
SelectionNext ==
    \/ HandleKnownCategorySelect
    \/ HandleTryAgain
    \/ HandleBackToCategories

SpecSelection == InitWith(DefaultOptions) /\ [][SelectionNext]_vars

\* ------------------------------------------------------------ the claims

\* C1: changeSong(newUrl) called while the hook is quiet and paused, with
\* newUrl other than the current source, does not auto-resume: once the
\* effect has re-run and every event is processed, the element is paused and
\* isPlaying is false, for every autoPlay and autoplay-blocked flag.
C1_ChangeSongWhilePausedStaysPaused ==
    (call.op = "changeSong" /\ call.found.was = "paused" /\ Quiet)
        => (el.paused /\ ~nx.isPlaying)

\* C2: in the defensive variant, changeSong(newUrl) called while playing
\* continues playback: once the source swap is complete and with play()
\* granted, the element plays newUrl and isPlaying is true; and isPlaying
\* never ends up true while the element is paused.
C2_ChangeSongWhilePlayingKeepsPlaying ==
    Defensive =>
        /\ (call.op = "changeSong" /\ call.found.was = "playing"
                /\ call.found.granted /\ Quiet)
              => (~el.paused /\ nx.isPlaying /\ el.src = call.what)
        /\ Quiet => ~(nx.isPlaying /\ el.paused)

\* C3: in every reachable state of the defensive variant, for every
\* initialVolume, the stored volume is within [0,1].
C3_StoredVolumeInRange == Defensive => nx.volume \in 0 .. VolSteps

\* C4: in the defensive variant, after setVolume(v) on a mounted hook, once
\* every change notification is delivered and rendered, the element volume and
\* the stored volume both equal clamp(v,0,1).
C4_SetVolumeStoresClamped ==
    (Defensive /\ call.op = "setVolume" /\ Quiet)
        => LET v == call.arg
               clamped == IF v < 0 THEN 0 ELSE IF v > VolSteps THEN VolSteps ELSE v
           IN el.volume = clamped /\ nx.volume = clamped

\* C5: in every reachable state of the defensive variant (its stored duration
\* is always finite), the stored currentTime is at most the stored duration.
C5_CurrentTimeWithinDuration == Defensive => nx.currentTime <= nx.duration

C7_TogglePlayTwiceRestores ==
    (call.op = "togglePlay2" /\ call.found.was # "other" /\ call.found.granted /\ Quiet)
        => /\ el.paused = (call.found.was = "paused")
           /\ nx.isPlaying = (call.found.was = "playing")

\* C8: in the defensive variant, when a manual play() request is fulfilled on
\* a mounted hook with the element playing, the hook reaches a state with
\* isPlaying true and the error null, unless a pause(), the end of the song,
\* a change of source or the unmount comes first; and isPlaying, once true, is
\* lowered only by the handlers of pause and ended and by the catch of an
\* automatic request that was rejected.
C8_FulfilledPlayMarksPlaying ==
    /\ (Defensive /\ phase = "live" /\ last.op = "deliver"
            /\ last.what = "thenManual" /\ ~el.paused)
          ~> \/ nx.isPlaying /\ nx.errorState = NoError
             \/ last.op \in {"pause", "unmount"}
             \/ last.op = "render" /\ last.arg = 1
             \/ last.op = "progress" /\ el.paused
    /\ [][(Defensive /\ nx.isPlaying /\ ~nx'.isPlaying)
            => (last'.op = "deliver" /\ last'.what \in {"pause", "ended", "rejAuto"})]_vars

\* C8, its case: a manual play() was fulfilled while the element plays, and
\* the hook is marked playing with no error.
C8_FulfilledPlayReached ==
    /\ Defensive /\ phase = "live"
    /\ call.op = "play"
    /\ last.op = "deliver" /\ last.what = "thenManual"
    /\ ~el.paused /\ nx.isPlaying /\ nx.errorState = NoError

\* C9: in the defensive variant, when the rejection of a play request, manual
\* or automatic, reaches a mounted hook, the error field is non-null, onError
\* is called, a rejected automatic request clears canAutoplay, and isPlaying
\* is false.
C9_RejectedPlayIsRecorded ==
    [][(Defensive /\ isMountedRef /\ last'.op = "deliver" /\ IsRej(last'.what))
          => /\ nx'.errorState # NoError
             /\ "onError" \in last'.fired
             /\ last'.what = "rejAuto" => ~nx'.canAutoplay
             /\ ~nx'.isPlaying]_vars

\* C10: pause() on a paused element changes neither the element nor the hook
\* state and calls no onPause; after any pause() the element is paused, so a
\* second pause() is such a call.
C10_PauseIsIdempotent ==
    [][Pause => /\ el'.paused
                /\ el.paused => (el' = el /\ nx' = nx /\ events' = events
                                    /\ last'.fired = {})]_vars

\* C11: toggleMute() flips the element's muted flag; after a toggleMute() on a
\* quiet hook, once the change notification is delivered and rendered, the
\* stored isMuted equals the element's flag, the negation of what it was; after
\* two toggleMute() calls in a row it is the original value again; and the
\* stored volume is what it was before the calls.
C11_ToggleMuteFlips ==
    /\ (call.op = "toggleMute" /\ call.found.was # "other" /\ Quiet)
          => /\ nx.isMuted = el.muted
             /\ nx.isMuted = ~call.found.isMuted
             /\ nx.volume = call.found.volume
    /\ (call.op = "toggleMute2" /\ call.found.was # "other" /\ Quiet)
          => /\ nx.isMuted = call.found.isMuted
             /\ nx.volume = call.found.volume

\* C12: changeSong(url) on a quiet hook with url equal to currentSong leaves
\* the hook state, the element and its queue unchanged and does not call
\* onSongChange; with another url it sets isLoading and currentSong = url at
\* once, and the element's source is url once the hook is quiet again.
C12_ChangeSongOnlyOnNewUrl ==
    /\ [][(Quiet /\ last'.op \in {"changeSong", "changeSongSame"})
            => IF last'.what = nx.currentSong
               THEN /\ nx' = nx /\ el' = el /\ events' = events
                    /\ "onSongChange" \notin last'.fired
               ELSE nx'.isLoading /\ nx'.currentSong = last'.what]_vars
    /\ []((call.op = "changeSong" /\ call.found.was # "other" /\ Quiet)
            => el.src = call.what)

\* C13: in the defensive variant, when the element's error event reaches the
\* mounted hook, the error field is non-null, onError is called and isLoading
\* is false right after the handler: the hook is not left loading with a null
\* error.
C13_MediaErrorIsRecorded ==
    [][(Defensive /\ phase = "live" /\ last'.op = "deliver" /\ last'.what = "error")
          => /\ nx'.errorState # NoError
             /\ "onError" \in last'.fired
             /\ ~nx'.isLoading]_vars

\* C13, its case: the error event of a resource that failed while the hook was
\* loading it has just been handled.
C13_MediaErrorReached ==
    /\ Defensive /\ phase = "live" /\ el.failed
    /\ last.op = "deliver" /\ last.what = "error"
    /\ nx.errorState = AudioError /\ ~nx.isLoading

\* C14: at every moment at most one set of the hook's handlers is registered
\* on the element (a re-run of the effect removes the old set before it adds
\* the new one), and after the unmount none is registered and the element is
\* paused.
C14_ListenerLifecycle ==
    /\ listeners \in {0, 1}
    /\ phase = "gone" => (listeners = 0 /\ el.paused)

\* C15: no step of another component changes the audio element (a click in the
\* song-list modal leaves it as it is), and whenever the hook is quiet its
\* currentSong is the element's source.
C15_OnlyTheHookMutatesTheElement ==
    /\ [][last'.op = "handlePlaySong" => el' = el]_vars
    /\ [](Quiet => nx.currentSong = el.src)

\* C16: after the countdown hook's owner has unmounted no interval of the hook
\* is left to tick, and while the guestbook is unmounted no timeout started by
\* an instance of it is pending.
C16_TimersReleasedOnTeardown ==
    /\ cd.phase = "gone" => cd.timers = 0
    /\ ~gb.mounted => gb.orphans = 0

\* C17: in every state of the countdown hook, countdownEnded implies that
\* days, hours, minutes and seconds are all 0, also after the owner re-renders
\* the hook with another targetDate.
C17_EndedImpliesZero == cd.countdownEnded => cd.countdownTime = ZeroTime

\* The hook counts down to a target 90 seconds after its mount.
In90Seconds == cd.explicit /\ cd.targetDate = 90 * Second

\* C18: for a fixed target 90 seconds after the mount, the first computed
\* remaining time is 0 days, 0 hours, 1 minute, 30 seconds; at every tick the
\* total of remaining seconds is smaller than before the tick; the mounted hook
\* reaches all zeros with countdownEnded true (unless it is unmounted); and
\* countdownEnded is false while the remaining time is not all zero.
C18_NinetySecondCountdown ==
    /\ [][(In90Seconds /\ cd'.op = "mount")
            => cd'.countdownTime = [days |-> 0, hours |-> 0, minutes |-> 1, seconds |-> 30]]_vars
    /\ [][(In90Seconds /\ cd'.op = "tick")
            => TotalSeconds(cd'.countdownTime) < TotalSeconds(cd.countdownTime)]_vars
    /\ (In90Seconds /\ cd.phase = "live")
          ~> \/ cd.countdownTime = ZeroTime /\ cd.countdownEnded
             \/ cd.phase = "gone"
    /\ []((In90Seconds /\ cd.countdownEnded)
            => (cd.countdownTime = ZeroTime /\ cd.op # "init"))

\* C18, its case: the tick that ends the 90-second countdown.
C18_NinetySecondsCounted ==
    /\ In90Seconds /\ cd.phase = "live" /\ cd.op = "tick"
    /\ cd.now >= 90 * Second - 1
    /\ cd.countdownTime = ZeroTime /\ cd.countdownEnded

\* C19: when the target is at or before the clock at the hook's first
\* computation, that computation stores all zeros and sets countdownEnded, and
\* the remaining time stays all zero as long as the hook counts to that target.
C19_PastTargetEndsAtOnce ==
    /\ [][(cd'.op = "mount" /\ cd'.past)
            => (cd'.countdownTime = ZeroTime /\ cd'.countdownEnded)]_vars
    /\ []((cd.phase # "init" /\ cd.past) => cd.countdownTime = ZeroTime)

\* C19, its case: the hook was mounted with a target that is not in the future
\* and its interval has ticked since.
C19_PastTargetTicked ==
    /\ cd.explicit /\ cd.targetDate <= 0 /\ cd.target = cd.targetDate /\ cd.past
    /\ cd.op = "tick"
    /\ cd.countdownTime = ZeroTime /\ cd.countdownEnded

\* C20: while mounted the hook recomputes only on mount, on a tick of its
\* interval and when its owner passes another targetDate; a tick that computes
\* all zeros sets countdownEnded and leaves no interval scheduled; and from
\* then on no interval is scheduled unless the owner passes another
\* targetDate.  This holds with a targetDate and with none.
C20_ComputesOnTicksAndStops ==
    /\ [][cd'.ran => cd'.op \in {"mount", "tick", "retarget"}]_vars
    /\ [][(cd'.op = "tick" /\ cd'.countdownTime = ZeroTime)
            => (cd'.countdownEnded /\ cd'.timers = 0)]_vars
    /\ [][(cd.phase = "live" /\ cd.countdownEnded /\ cd.timers = 0
              /\ cd'.op # "retarget")
            => cd'.timers = 0]_vars

\* The countdown to an explicit target has ended and the owner has passed no
\* other target since: the hook is mounted and its interval is cleared.
EndedExplicit == cd.explicit /\ cd.phase = "live" /\ cd.timers = 0

\* C21: resetCountdown(newTarget?) sets countdownEnded to false and the
\* remaining time to zero and returns newTarget, or the default target when
\* none is given; it starts no timer and leaves the hook's target; and after
\* the countdown to an explicit target has ended, no timer is started and,
\* once reset, the remaining time stays zero with countdownEnded false until
\* the owner passes another target.
C21_ResetDoesNotRestart ==
    /\ [][cd'.op = "reset"
            => /\ ~cd'.countdownEnded /\ cd'.countdownTime = ZeroTime
               /\ cd'.returned = IF cd'.asked = {} THEN {defaultTargetDate(cd.now)}
                                 ELSE cd'.asked
               /\ cd'.timers = cd.timers /\ cd'.timer = cd.timer
               /\ cd'.target = cd.target]_vars
    /\ [][(EndedExplicit /\ cd'.op # "retarget")
            => /\ cd'.timers = 0
               /\ ~cd.countdownEnded
                     => (~cd'.countdownEnded /\ cd'.countdownTime = ZeroTime)]_vars

\* C21, its case: the countdown to an explicit target ended, resetCountdown
\* was called, and time has passed since with nothing restarted.
C21_ResetAfterEndReached ==
    /\ EndedExplicit /\ cd.op = "advance"
    /\ ~cd.countdownEnded /\ cd.countdownTime = ZeroTime

\* The units of a countdownTime with their letters, largest first.
UnitsOf(t) ==
    <<[n |-> t.days, u |-> "d"], [n |-> t.hours, u |-> "h"],
      [n |-> t.minutes, u |-> "m"], [n |-> t.seconds, u |-> "s"]>>

\* The units from the i-th on, each as number and letter, separated by blanks.
RECURSIVE UnitsFrom(_, _)
UnitsFrom(us, i) ==
    ToString(us[i].n) \o us[i].u
        \o (IF i = Len(us) THEN "" ELSE " " \o UnitsFrom(us, i + 1))

\* C22: formatCountdown() renders the units from the largest non-zero one down
\* to the seconds, every unit after the first included even when zero, and the
\* seconds alone when every larger unit is zero.
C22_FormatFromLargestUnit ==
    cd.op = "format"
        => LET us == UnitsOf(cd.countdownTime)
               nonzero == {i \in 1 .. 3 : us[i].n > 0}
               first == IF nonzero = {} THEN 4
                        ELSE CHOOSE i \in nonzero : \A j \in nonzero : i <= j
           IN cd.text = UnitsFrom(us, first)

\* C22, its case: a day and no hours, minutes or seconds, rendered with its
\* zero units.
C22_InnerZerosRendered ==
    /\ cd.op = "format"
    /\ cd.countdownTime = [days |-> 1, hours |-> 0, minutes |-> 0, seconds |-> 0]
    /\ cd.text = "1d 0h 0m 0s"

\* The next April 15th, 00:00, that is not before an instant.
NextApril15(today) ==
    LET later == {April15(y) : y \in FirstYear .. FirstYear + 4}
    IN CHOOSE a \in later : a >= today /\ \A b \in later : b >= today => a <= b

\* C23: with no explicit target, the target of the effect and the date that
\* resetCountdown() returns are the next April 15th, 00:00, not before the
\* current instant: never in the past and less than a year and a day ahead.
C23_DefaultTargetIsNextBirthday ==
    /\ (~cd.explicit /\ cd.phase = "live")
          => /\ cd.target = NextApril15(cd.now)
             /\ cd.target >= cd.now
             /\ cd.target - cd.now < Year + Day
    /\ (~cd.explicit /\ cd.op = "reset" /\ cd.asked = {})
          => cd.returned = {NextApril15(cd.now)}

\* C23, its case: half a second after April 15th, 00:00, before a leap year,
\* the target is the April 15th of the next year, 366 days later.
C23_RolledToNextYear ==
    /\ ~cd.explicit /\ cd.phase = "live"
    /\ cd.now = April15(FirstYear + 2) + 1
    /\ cd.target = April15(FirstYear + 3)
    /\ cd.target - cd.now = 366 * Day - 1

\* C24: formatTime(seconds), in each variant of the audio hook, returns "0:00"
\* for a negative or non-finite input and else M:SS, with M the whole minutes
\* and SS the whole seconds of the rest, in 00..59 with two digits.
C24_FormatTimeGuardsItsInput ==
    last.op = "formatTime"
        => IF call.what # "finite" \/ last.arg < 0 THEN last.what = "0:00"
           ELSE LET whole == last.arg \div 10
                    m == CHOOSE k \in 0 .. whole : 60 * k <= whole /\ whole < 60 * (k + 1)
                    ss == whole - 60 * m
                IN /\ ss \in 0 .. 59
                   /\ last.what = ToString(m) \o ":" \o ToString(ss \div 10)
                                                \o ToString(ss % 10)

\* C25: the stage is always one of the enumerated stage names and is
\* "countdown" initially; a dish or a place is selected only when a category
\* is selected, and the dish and the place are selected only together.
C25_StageAndSelection ==
    /\ page.stage \in Stages
    /\ page.op = "init" => page.stage = "countdown"
    /\ (page.selectedDish # NoSelection \/ page.selectedPlace # NoSelection)
          => page.selectedCategory # NoSelection
    /\ (page.selectedDish = NoSelection) <=> (page.selectedPlace = NoSelection)

C25_SelectionMade ==
    /\ page.op = "handleCategorySelect"
    /\ page.selectedDish # NoSelection
    /\ page.selectedPlace # NoSelection

\* The elements of a list.
ListItems(list) == {list[i] : i \in DOMAIN list}

\* C27: after any sequence of handleCategorySelect(c) with c a key of the
\* food table, handleTryAgain and handleBackToCategories, a selected dish is a
\* dish of the selected category and a selected place is one of its places;
\* handleCategorySelect(c) shows the result stage with category c;
\* handleTryAgain leaves the stage and the category unchanged and changes
\* nothing when no category is selected; handleBackToCategories changes only
\* the stage, to "selection".
C27_SelectionFollowsTheFoodTable ==
    [][/\ page'.selectedDish # NoSelection
            => /\ page'.selectedCategory \in Categories
               /\ page'.selectedDish \in ListItems(foodData[page'.selectedCategory].dishes)
       /\ page'.selectedPlace # NoSelection
            => /\ page'.selectedCategory \in Categories
               /\ page'.selectedPlace \in ListItems(foodData[page'.selectedCategory].places)
       /\ page'.op = "handleCategorySelect"
            => /\ page'.stage = "result"
               /\ page'.selectedCategory = page'.arg
       /\ page'.op = "handleTryAgain"
            => /\ page'.stage = page.stage
               /\ page'.selectedCategory = page.selectedCategory
               /\ page.selectedCategory = NoSelection
                    => /\ page'.selectedDish = page.selectedDish
                       /\ page'.selectedPlace = page.selectedPlace
       /\ page'.op = "handleBackToCategories"
            => /\ page'.stage = "selection"
               /\ page'.selectedCategory = page.selectedCategory
               /\ page'.selectedDish = page.selectedDish
               /\ page'.selectedPlace = page.selectedPlace]_vars

C27_TriedAgainFromSelection ==
    /\ page.op = "handleTryAgain"
    /\ page.stage = "selection"
    /\ page.selectedDish # NoSelection

\* The rejections of automatic play() attempts that wait in a queue.
AutoRejections(q) == Len(SelectSeq(q, LAMBDA e : e = "rejAuto"))

\* The step made an automatic play() attempt: its promise is pending, or its
\* rejection was queued on top of those the step found.
AutomaticAttempt ==
    \/ "auto" \in el'.pend /\ last'.op \in {"mount", "render"}
    \/ AutoRejections(events')
          > AutoRejections(events) + (IF "auto" \in el.pend THEN 1 ELSE 0)

\* C26: in the defensive variant the rejection of an automatic play() attempt
\* makes autoplayBlocked true; while it is true no re-run of the effect makes
\* an automatic play() attempt; a manual play() clears it and makes one play
\* request, and the render that follows neither pauses the element, nor
\* reloads its source, nor makes another play request.
C26_BlockedAutoplayWaitsForPlay ==
    [][Defensive /\ phase' = "live"
         => /\ (last'.op = "deliver" /\ last'.what = "rejAuto") => ~nx'.canAutoplay
            /\ (last'.op = "render" /\ ~nx.canAutoplay) => ~AutomaticAttempt
            /\ (last'.op = "play" /\ ~nx.canAutoplay)
                  => /\ nx'.canAutoplay
                     /\ el'.src = el.src /\ el'.meta = el.meta
                     /\ ~AutomaticAttempt
            /\ (last'.op = "render" /\ call.op = "play"
                    /\ ~st.canAutoplay /\ nx.canAutoplay)
                  => el' = el /\ events' = events]_vars

\* C28: in the defensive variant, in every state with the hook mounted and no
\* media event waiting to be delivered, isPlaying is true exactly when the
\* element is not paused.
C28_IsPlayingMirrorsTheElement ==
    (Defensive /\ phase = "live" /\ events = <<>>) => (nx.isPlaying <=> ~el.paused)

\* C29: when nothing waits to be delivered and the modal shows a song as
\* playing (its currentSong with isPlaying), the element's source is that
\* song's url and the element is not paused; and a click on the song shown as
\* playing pauses the element and leaves currentSong as it is.
C29_ModalShowsWhatPlays ==
    [][/\ (events' = <<>> /\ modal'.isPlaying /\ modal'.currentSong \in Songs)
            => (el'.src = modal'.currentSong /\ ~el'.paused)
       /\ (last'.op = "handlePlaySong" /\ modal.isPlaying
                /\ modal.currentSong = last'.what)
            => (el'.paused /\ modal'.currentSong = modal.currentSong)]_vars

====
